---- MODULE Spec2Model ----
(***************************************************************************)
(* Model of clean_history.py: a sequential script that checks two          *)
(* preconditions, creates a backup branch, rewrites history with           *)
(* git-filter-repo and force-pushes the result.                            *)
(*                                                                         *)
(* The environment (whether .git exists, and what each subprocess does)    *)
(* is nondeterministic.  Every printed line is appended to `output`, every *)
(* subprocess.run call is appended to `calls`.  The glyphs that prefix     *)
(* some printed lines in the source are left out of the message texts.     *)
(***************************************************************************)
EXTENDS Integers, Sequences, FiniteSets, TLC

\* ---------------------------------------------------------------- bounds
\* Largest return code a subprocess is given in the model.
MaxReturnCode == 2

\* Return codes of a completed subprocess: negative when killed by a signal,
\* 0 on success, positive on failure.
ReturnCodes == (0 - 1)..MaxReturnCode

\* Texts a subprocess may leave on its output streams.
StdoutTexts == {"", "out: text"}
StderrTexts == {"", "fatal: text"}

\* Exceptions subprocess.run can raise (launch failure, undecodable output),
\* both subclasses of Exception.
RaisedExceptions ==
    { [cls |-> "OSError", msg |-> "[Errno 12] Cannot allocate memory"],
      [cls |-> "UnicodeDecodeError", msg |-> "invalid start byte"] }

\* What one subprocess.run(cmd, shell=True, capture_output=True, text=True)
\* can do: complete with a return code and two captured streams, or raise.
Outcomes ==
    [kind : {"completed"}, returncode : ReturnCodes,
     stdout : StdoutTexts, stderr : StderrTexts, exc : {[cls |-> "", msg |-> ""]}]
    \cup
    [kind : {"raised"}, returncode : {0},
     stdout : {""}, stderr : {""}, exc : RaisedExceptions]

\* ------------------------------------------------------- program constants
WhichCmd  == "which git-filter-repo"
BackupCmd == "git branch backup-before-cleanup"
PushCmd   == "git push origin main --force"
filter_cmd == << "git-filter-repo", "--path backend/.env", "--invert-paths", "--force" >>

\* sep.join(parts)
RECURSIVE Join(_, _)
Join(parts, sep) ==
    IF Len(parts) = 0 THEN ""
    ELSE IF Len(parts) = 1 THEN parts[1]
    ELSE parts[1] \o sep \o Join(Tail(parts), sep)

FilterCmd == Join(filter_cmd, " ")

\* the argument of sys.exit on every failure path
FailureStatus == 1

MsgNotRepo      == "Error: Not in a git repository"
MsgNoTool       == "Error: git-filter-repo not found. Please install it first."
MsgInstallHint  == "You can install it with: pip3 install git-filter-repo"
MsgCleaning     == "Cleaning git history to remove secrets..."
MsgBackupOk     == "Created backup branch: backup-before-cleanup"
MsgBackupWarn   == "Warning: Could not create backup branch"
MsgRunning      == "Running git-filter-repo to remove .env files from history..."
MsgFilterOk     == "Successfully cleaned git history"
MsgPushing      == "Force pushing to remote..."
MsgPushOk       == "Successfully pushed cleaned history to remote"
MsgPushFail     == "Failed to push to remote:"
MsgFilterFail   == "Failed to clean git history:"
MsgCelebrate    == "\nGit history cleaned successfully!"
MsgRestore      == "If you need to restore, use: git checkout backup-before-cleanup"
MsgFailed       == "\nFailed to clean git history"

\* ------------------------------------------------------------------ state
VARIABLES
    pc,          \* the statement the script is at
    gitDir,      \* os.path.exists(".git")
    calls,       \* every subprocess.run so far: command, what it did, what run_command returned
    output,      \* the lines printed so far
    ret,         \* return value of clean_git_history: "none", "True" or "False"
    exitStatus,  \* status the process ends with (0 unless sys.exit(1) or a traceback)
    uncaught     \* an exception left run_command and ended the process

vars == << pc, gitDir, calls, output, ret, exitStatus, uncaught >>

\* -------------------------------------------------------------- run_command
\* The classes `except Exception` catches.
ExceptionClasses == {"OSError", "UnicodeDecodeError"}

run_command_narrow_except(o) ==
    IF o.kind = "completed"
    THEN [raised |-> FALSE, val |-> << o.returncode = 0, o.stdout, o.stderr >>]
    ELSE IF o.exc.cls = "OSError"
         THEN [raised |-> FALSE, val |-> << FALSE, "", o.exc.msg >>]
         ELSE [raised |-> TRUE, val |-> << FALSE, "", "" >>]

\* run_command(cmd) where subprocess.run behaves as o: the returned triple
\* (success, stdout, stderr), or the exception leaving the function.
run_command(o) ==
    IF o.kind = "completed"
    THEN [raised |-> FALSE, val |-> << o.returncode = 0, o.stdout, o.stderr >>]
    ELSE IF o.exc.cls \in ExceptionClasses
         THEN [raised |-> FALSE, val |-> << FALSE, "", o.exc.msg >>]
         ELSE [raised |-> TRUE, val |-> << FALSE, "", "" >>]

\* One entry of `calls`.
Call(cmd, o) == [cmd |-> cmd, outcome |-> o, result |-> run_command(o).val]

\* An exception that leaves run_command is caught nowhere: the interpreter
\* prints a traceback and the process ends with status 1.
Traceback(cmd, o) ==
    /\ calls' = Append(calls, Call(cmd, o))
    /\ uncaught' = TRUE
    /\ pc' = "exited"
    /\ exitStatus' = FailureStatus
    /\ UNCHANGED << gitDir, ret >>

Init ==
    /\ pc = "check_git"
    /\ gitDir \in BOOLEAN
    /\ calls = << >>
    /\ output = << >>
    /\ ret = "none"
    /\ exitStatus = 0
    /\ uncaught = FALSE

\* print(line) for each line, in order
Say(lines) == output' = output \o lines

\* ------------------------------------------------------------------ __main__
\* sys.exit(1)
Exit1 ==
    /\ pc' = "exited"
    /\ exitStatus' = FailureStatus

CheckGitRepo_falls_through ==
    /\ pc = "check_git"
    /\ IF ~gitDir THEN Say(<< MsgNotRepo >>) ELSE UNCHANGED output
    /\ pc' = "check_tool"
    /\ UNCHANGED << gitDir, calls, ret, exitStatus, uncaught >>

\* if not os.path.exists(".git"): print the error and exit with status 1
CheckGitRepo ==
    /\ pc = "check_git"
    /\ IF ~gitDir
       THEN Say(<< MsgNotRepo >>) /\ Exit1
       ELSE pc' = "check_tool" /\ UNCHANGED << output, exitStatus >>
    /\ UNCHANGED << gitDir, calls, ret, uncaught >>

CheckFilterRepo_falls_through ==
    /\ pc = "check_tool"
    /\ \E o \in Outcomes :
         LET r == run_command(o) IN
         IF r.raised THEN Traceback(WhichCmd, o) /\ UNCHANGED output
         ELSE /\ calls' = Append(calls, Call(WhichCmd, o))
              /\ IF ~r.val[1]
                 THEN Say(<< MsgNoTool, MsgInstallHint >>)
                 ELSE UNCHANGED output
              /\ pc' = "backup"
              /\ UNCHANGED << gitDir, ret, exitStatus, uncaught >>

CheckFilterRepo_skips_backup ==
    /\ pc = "check_tool"
    /\ \E o \in Outcomes :
         LET r == run_command(o) IN
         IF r.raised THEN Traceback(WhichCmd, o) /\ UNCHANGED output
         ELSE /\ calls' = Append(calls, Call(WhichCmd, o))
              /\ IF ~r.val[1]
                 THEN Say(<< MsgNoTool, MsgInstallHint >>) /\ Exit1
                 ELSE pc' = "filter" /\ UNCHANGED << output, exitStatus >>
              /\ UNCHANGED << gitDir, ret, uncaught >>

\* run "which git-filter-repo"; on failure print the hint and exit with status 1
CheckFilterRepo ==
    /\ pc = "check_tool"
    /\ \E o \in Outcomes :
         LET r == run_command(o) IN
         IF r.raised THEN Traceback(WhichCmd, o) /\ UNCHANGED output
         ELSE /\ calls' = Append(calls, Call(WhichCmd, o))
              /\ IF ~r.val[1]
                 THEN Say(<< MsgNoTool, MsgInstallHint >>) /\ Exit1
                 ELSE pc' = "backup" /\ UNCHANGED << output, exitStatus >>
              /\ UNCHANGED << gitDir, ret, uncaught >>

\* -------------------------------------------------------- clean_git_history
CreateBackup_fatal ==
    /\ pc = "backup"
    /\ \E o \in Outcomes :
         LET r == run_command(o) IN
         IF r.raised THEN Traceback(BackupCmd, o) /\ Say(<< MsgCleaning >>)
         ELSE /\ calls' = Append(calls, Call(BackupCmd, o))
              /\ IF r.val[1]
                 THEN /\ Say(<< MsgCleaning, MsgBackupOk >>)
                      /\ pc' = "filter"
                      /\ UNCHANGED exitStatus
                 ELSE /\ Say(<< MsgCleaning, MsgBackupWarn >>)
                      /\ Exit1
              /\ UNCHANGED << gitDir, ret, uncaught >>

\* the banner, then "git branch backup-before-cleanup": a confirmation on
\* success, a warning otherwise, and on to the rewrite either way
CreateBackup ==
    /\ pc = "backup"
    /\ \E o \in Outcomes :
         LET r == run_command(o) IN
         IF r.raised THEN Traceback(BackupCmd, o) /\ Say(<< MsgCleaning >>)
         ELSE /\ calls' = Append(calls, Call(BackupCmd, o))
              /\ Say(<< MsgCleaning, IF r.val[1] THEN MsgBackupOk ELSE MsgBackupWarn >>)
              /\ pc' = "filter"
              /\ UNCHANGED << gitDir, ret, exitStatus, uncaught >>

RunFilterRepo_pushes_anyway ==
    /\ pc = "filter"
    /\ \E o \in Outcomes :
         LET r == run_command(o) IN
         IF r.raised THEN Traceback(FilterCmd, o) /\ Say(<< MsgRunning >>)
         ELSE /\ calls' = Append(calls, Call(FilterCmd, o))
              /\ IF r.val[1]
                 THEN Say(<< MsgRunning, MsgFilterOk, MsgPushing >>)
                 ELSE Say(<< MsgRunning, MsgFilterFail, r.val[3], MsgPushing >>)
              /\ pc' = "push"
              /\ UNCHANGED << gitDir, ret, exitStatus, uncaught >>

\* run git-filter-repo; on success announce the push, on failure print the
\* captured stderr and return False
RunFilterRepo ==
    /\ pc = "filter"
    /\ \E o \in Outcomes :
         LET r == run_command(o) IN
         IF r.raised THEN Traceback(FilterCmd, o) /\ Say(<< MsgRunning >>)
         ELSE /\ calls' = Append(calls, Call(FilterCmd, o))
              /\ IF r.val[1]
                 THEN /\ Say(<< MsgRunning, MsgFilterOk, MsgPushing >>)
                      /\ pc' = "push"
                      /\ UNCHANGED ret
                 ELSE /\ Say(<< MsgRunning, MsgFilterFail, r.val[3] >>)
                      /\ pc' = "report"
                      /\ ret' = "False"
              /\ UNCHANGED << gitDir, exitStatus, uncaught >>

ForcePush_prints_stdout ==
    /\ pc = "push"
    /\ \E o \in Outcomes :
         LET r == run_command(o) IN
         IF r.raised THEN Traceback(PushCmd, o) /\ UNCHANGED output
         ELSE /\ calls' = Append(calls, Call(PushCmd, o))
              /\ IF r.val[1]
                 THEN Say(<< MsgPushOk >>) /\ ret' = "True"
                 ELSE Say(<< MsgPushFail, r.val[2] >>) /\ ret' = "False"
              /\ pc' = "report"
              /\ UNCHANGED << gitDir, exitStatus, uncaught >>

ForcePush_retries ==
    /\ pc = "push"
    /\ \E o \in Outcomes :
         LET r == run_command(o) IN
         IF r.raised THEN Traceback(PushCmd, o) /\ UNCHANGED output
         ELSE /\ calls' = Append(calls, Call(PushCmd, o))
              /\ IF r.val[1]
                 THEN Say(<< MsgPushOk >>) /\ ret' = "True" /\ pc' = "report"
                 ELSE IF \E i \in DOMAIN calls : calls[i].cmd = PushCmd
                      THEN Say(<< MsgPushFail, r.val[3] >>) /\ ret' = "False" /\ pc' = "report"
                      ELSE UNCHANGED << output, ret, pc >>
              /\ UNCHANGED << gitDir, exitStatus, uncaught >>

\* run "git push origin main --force"; return True on success, print the
\* captured stderr and return False otherwise
ForcePush ==
    /\ pc = "push"
    /\ \E o \in Outcomes :
         LET r == run_command(o) IN
         IF r.raised THEN Traceback(PushCmd, o) /\ UNCHANGED output
         ELSE /\ calls' = Append(calls, Call(PushCmd, o))
              /\ IF r.val[1]
                 THEN Say(<< MsgPushOk >>) /\ ret' = "True"
                 ELSE Say(<< MsgPushFail, r.val[3] >>) /\ ret' = "False"
              /\ pc' = "report"
              /\ UNCHANGED << gitDir, exitStatus, uncaught >>

\* ------------------------------------------------------- __main__, the end
Report_exits_zero ==
    /\ pc = "report"
    /\ IF ret = "True"
       THEN Say(<< MsgCelebrate, MsgRestore >>)
       ELSE Say(<< MsgFailed >>)
    /\ pc' = "exited"
    /\ UNCHANGED << gitDir, calls, ret, exitStatus, uncaught >>

Report_always_restore_hint ==
    /\ pc = "report"
    /\ IF ret = "True"
       THEN Say(<< MsgCelebrate, MsgRestore >>) /\ pc' = "exited" /\ UNCHANGED exitStatus
       ELSE Say(<< MsgFailed, MsgRestore >>) /\ Exit1
    /\ UNCHANGED << gitDir, calls, ret, uncaught >>

\* if clean_git_history(): the two success lines, and the script ends (status
\* 0); else the failure line and sys.exit(1)
Report ==
    /\ pc = "report"
    /\ IF ret = "True"
       THEN Say(<< MsgCelebrate, MsgRestore >>) /\ pc' = "exited" /\ UNCHANGED exitStatus
       ELSE Say(<< MsgFailed >>) /\ Exit1
    /\ UNCHANGED << gitDir, calls, ret, uncaught >>

Next ==
    \/ CheckGitRepo
    \/ CheckFilterRepo
    \/ CreateBackup
    \/ RunFilterRepo
    \/ ForcePush
    \/ Report

Spec == Init /\ [][Next]_vars

\* ------------------------------------------------------------- observations
Range(s) == { s[i] : i \in DOMAIN s }

\* the commands handed to subprocess.run so far, in order
Invoked == [i \in DOMAIN calls |-> calls[i].cmd]

\* cmd has been invoked
Attempted(cmd) == \E i \in DOMAIN calls : calls[i].cmd = cmd

\* cmd has been invoked and run_command reported success
Returned(cmd, ok) == \E i \in DOMAIN calls : calls[i].cmd = cmd /\ calls[i].result[1] = ok

\* cmd has been invoked and its process ended with return code 0
ExitedZero(cmd) ==
    \E i \in DOMAIN calls :
        /\ calls[i].cmd = cmd
        /\ calls[i].outcome.kind = "completed"
        /\ calls[i].outcome.returncode = 0

Exited == pc = "exited"

IsPrefix(s, t) == Len(s) <= Len(t) /\ \A i \in DOMAIN s : s[i] = t[i]

CommandOrder == << WhichCmd, BackupCmd, FilterCmd, PushCmd >>

\* ------------------------------------------------------------------- claims

\* C1: a push attempt is always preceded by a rewrite attempt that returned
\* success; once the rewrite has failed, the run never pushes.
C1_PushOnlyAfterRewriteSuccess ==
    /\ \A i \in DOMAIN calls :
         calls[i].cmd = PushCmd =>
           \E j \in 1..(i - 1) : calls[j].cmd = FilterCmd /\ calls[j].result[1]
    /\ Returned(FilterCmd, FALSE) => ~Attempted(PushCmd) /\ pc \in {"report", "exited"}

C1_Witness == Exited /\ Returned(FilterCmd, FALSE) /\ ~Attempted(PushCmd)

\* C2 (as stated): whenever git-filter-repo has been invoked, the backup
\* branch has already been created successfully by this run.
C2_BackupCreatedBeforeRewrite ==
    \A i \in DOMAIN calls :
        calls[i].cmd = FilterCmd =>
          \E j \in 1..(i - 1) : calls[j].cmd = BackupCmd /\ calls[j].result[1]

\* C2 (amended): whenever git-filter-repo has been invoked, the creation of
\* the backup branch has already been attempted by this run, and it either
\* succeeded or the warning was printed.
C2_BackupAttemptedBeforeRewrite ==
    \A i \in DOMAIN calls :
        calls[i].cmd = FilterCmd =>
          \E j \in 1..(i - 1) :
             /\ calls[j].cmd = BackupCmd
             /\ calls[j].result[1] \/ MsgBackupWarn \in Range(output)
             /\ calls[j].result[1] => MsgBackupOk \in Range(output)

C2_Witness ==
    /\ Exited /\ exitStatus = 0
    /\ Returned(BackupCmd, FALSE)
    /\ Attempted(FilterCmd)

\* C3: a finished run has status 0 exactly when .git exists and the tool
\* check, the rewrite and the push all ended with return code 0; every other
\* finished run has status 1.
C3_ExitStatus ==
    Exited =>
      /\ exitStatus \in {0, 1}
      /\ exitStatus = 0 <=>
           /\ gitDir
           /\ ExitedZero(WhichCmd)
           /\ ExitedZero(FilterCmd)
           /\ ExitedZero(PushCmd)

C3_Witness == Exited /\ exitStatus = 0 /\ ExitedZero(PushCmd)

\* C4: without a .git entry the run ends at once with status 1 and the
\* "Error: Not in a git repository" line, and does nothing else.
C4_NoGitDir ==
    ~gitDir =>
      \/ pc = "check_git" /\ output = << >>
      \/ Exited /\ exitStatus = 1 /\ output = << MsgNotRepo >>

C4_Witness == ~gitDir /\ Exited

\* C5: in a git repository, when "which git-filter-repo" does not succeed the
\* run ends with status 1 having printed the installation hint.
C5_ToolMissing ==
    gitDir /\ Attempted(WhichCmd) /\ ~ExitedZero(WhichCmd) =>
      /\ Exited
      /\ exitStatus = 1
      /\ output = << MsgNoTool, MsgInstallHint >>

C5_Witness == gitDir /\ Attempted(WhichCmd) /\ ~ExitedZero(WhichCmd) /\ Exited

\* C6: when the push fails the run ends with a non-zero status and the
\* output holds the stderr text captured from the push command, right after
\* the line announcing the failure.
C6_PushFailure ==
    \A i \in DOMAIN calls :
        calls[i].cmd = PushCmd /\ ~calls[i].result[1] =>
          /\ pc \in {"report", "exited"}
          /\ Exited => exitStatus # 0
          /\ \E k \in DOMAIN output :
               /\ k > 1
               /\ output[k - 1] = MsgPushFail
               /\ output[k] = calls[i].result[3]
               /\ calls[i].outcome.kind = "completed" => output[k] = calls[i].outcome.stderr

C6_Witness ==
    /\ Exited
    /\ \E i \in DOMAIN calls :
         /\ calls[i].cmd = PushCmd
         /\ calls[i].outcome.kind = "completed"
         /\ calls[i].outcome.returncode # 0
         /\ calls[i].outcome.stderr # ""
         /\ calls[i].outcome.stdout # calls[i].outcome.stderr

\* C7: a fully successful run prints the celebration line and the restore
\* instruction; no run that ends in failure (and no unfinished run) has
\* printed either.
C7_SuccessLines ==
    LET full == gitDir /\ ExitedZero(WhichCmd) /\ ExitedZero(FilterCmd) /\ ExitedZero(PushCmd)
    IN /\ Exited /\ full => {MsgCelebrate, MsgRestore} \subseteq Range(output)
       /\ {MsgCelebrate, MsgRestore} \cap Range(output) # {} =>
            Exited /\ exitStatus = 0 /\ full

C7_Witness ==
    /\ Exited /\ ExitedZero(PushCmd)
    /\ output[Len(output)] = MsgRestore
    /\ output[Len(output) - 1] = MsgCelebrate

\* C8: a failed backup is not fatal: the warning is printed, the run goes on
\* to the rewrite, and the status of a finished run is decided by the
\* rewrite and the push alone.
C8_BackupNonFatal ==
    /\ Returned(BackupCmd, FALSE) =>
         /\ MsgBackupWarn \in Range(output)
         /\ pc = "filter" \/ Attempted(FilterCmd)
    /\ Attempted(BackupCmd) /\ Exited =>
         (exitStatus = 0 <=> Returned(FilterCmd, TRUE) /\ Returned(PushCmd, TRUE))

C8_Witness == Returned(BackupCmd, FALSE) /\ Exited /\ exitStatus = 0

\* C9: the command runner never raises; success is true exactly when the
\* return code is 0, and an exception raised by the launch comes back as
\* (False, "", text of the exception).
C9_RunCommandNeverRaises ==
    /\ ~uncaught
    /\ \A i \in DOMAIN calls :
         LET o == calls[i].outcome
             r == calls[i].result
         IN /\ o.kind = "completed" =>
                 /\ r[1] <=> (o.returncode = 0)
                 /\ r[2] = o.stdout
                 /\ r[3] = o.stderr
            /\ o.kind = "raised" => r = << FALSE, "", o.exc.msg >>

C9_Witness ==
    /\ \E i \in DOMAIN calls : calls[i].outcome.kind = "raised"
    /\ \E i \in DOMAIN calls :
         calls[i].outcome.kind = "completed" /\ calls[i].outcome.returncode # 0

\* C10: the commands are invoked in the fixed order which, branch,
\* git-filter-repo, push, each at most once; nothing is invoked without .git,
\* and the last three only after the tool check passed.
C10_FixedOrderNoRetries ==
    /\ IsPrefix(Invoked, CommandOrder)
    /\ ~gitDir => calls = << >>
    /\ Len(calls) > 1 => gitDir /\ calls[1].cmd = WhichCmd /\ calls[1].result[1]

C10_Witness == Invoked = CommandOrder /\ Exited
====
